---- MODULE Spec2Model ----
\* Model of the Fetch-and-Export pipeline of ssl_downloader.py: one run of the
\* script is the walk idle -> download -> compare -> crt -> key -> cab ->
\* metadata -> on_export -> done -> idle over a file system that outlives it.
EXTENDS Integers, FiniteSets, Sequences, TLC

\* ---------------------------------------------------------------- bounds
\* Timestamps (wall clock, valid_from, valid_to) range over 0..MaxTime.
MaxTime == 1
\* Fingerprints of the certificates the remote server can hand out: 1..NumFP.
NumFP == 2
\* Hashes of the certificates the store can hold: 1..NumHash.
NumHash == 3

Times == 0..MaxTime
Fingerprints == 1..NumFP
\* The one domain of the configuration (config['domain']).
Domain == 1

\* The names of the export loop, line 189.
NameSet == {"crt", "key", "cab"}

\* ------------------------------------------------------- file contents
Absent == [kind |-> "absent"]
\* A file opened with 'w' whose write did not complete: truncated or partial.
Truncated == [kind |-> "truncated"]
\* The PEM text of part `name` of the certificate with fingerprint fp.
Pem(name, fp) == [kind |-> "pem", part |-> name, of |-> fp]

\* A metadata file whose text json.load cannot decode (empty, partial, junk).
Garbage == [kind |-> "garbage"]
\* A metadata file holding the JSON value v.
Json(v) == [kind |-> "json", val |-> v]
\* JSON values: an object (a record of its keys) or something else (an array).
Object(o) == [t |-> "object", o |-> o]
Array == [t |-> "array"]

\* ------------------------------------------------------- certificates
\* What download_ssl_data returns on success: the response's JSON object.
Cert(fp, vf, vt) ==
  [domain |-> Domain, crt |-> Pem("crt", fp), key |-> Pem("key", fp),
   cab |-> Pem("cab", fp), valid_from |-> vf, valid_to |-> vt, fingerprint |-> fp]
Certs == {Cert(fp, vf, vt) : fp \in Fingerprints, vf \in Times, vt \in Times}
\* cert before the download, and None after a failed one.
NoCert == [domain |-> 0, crt |-> Absent, key |-> Absent, cab |-> Absent,
           valid_from |-> 0, valid_to |-> 0, fingerprint |-> 0]

\* The dict built at line 202 and what json.dump/json.load make of it: the
\* four keys with integer and string values survive the round trip unchanged.
MetadataOf(c) ==
  [domain |-> c.domain, valid_from |-> c.valid_from, valid_to |-> c.valid_to,
   fingerprint |-> c.fingerprint]

\* v[k] of Python: TypeError on a non-object, KeyError on a missing key.
CanSubscript(v, k) == v.t = "object" /\ k \in DOMAIN v.o

\* A metadata file that holds a complete CertificateRecord.
IsRecord(file) ==
  /\ file.kind = "json"
  /\ file.val.t = "object"
  /\ DOMAIN file.val.o = {"domain", "valid_from", "valid_to", "fingerprint"}

\* What the configured metadata path can hold before the first export without
\* being a record: nothing, text that is not JSON, JSON that is not an object,
\* an object without the fingerprint key, an object with that key alone.
InitialMetadata ==
  {Absent, Garbage, Json(Array), Json(Object([domain |-> Domain]))}
    \cup {Json(Object([fingerprint |-> fp])) : fp \in Fingerprints}

\* ------------------------------------------- rds_ssl_manager.py: data
\* The PKCS #12 container openssl makes of a certificate and a key file.
Pkcs12(crt, key) == [kind |-> "pkcs12", crt |-> crt, key |-> key]

\* openssl can only combine a PEM certificate with the PEM key that matches it.
Convertible(crt, key) ==
  crt.kind = "pem" /\ key.kind = "pem" /\ crt.of = key.of

\* An entry of the store, as one block of the certutil -store listing shows it:
\* its Cert Hash(sha1) and, when expires holds, its NotAfter timestamp.
Entry(h, e, t) == [hash |-> h, expires |-> e, notAfter |-> t]
\* The store also holds certificates of other origin: hashes 1..NumHash.
StoreHashes == 1..NumHash
Entries ==
  {Entry(h, TRUE, t) : h \in StoreHashes, t \in Times}
    \cup {Entry(h, FALSE, 0) : h \in StoreHashes}
Hashes(S) == {e.hash : e \in S}

\* The blocks of the listing, in the order certutil prints them (by hash here).
RECURSIVE Listing(_)
Listing(S) ==
  IF S = {} THEN <<>>
  ELSE LET first == CHOOSE x \in S : \A y \in S : x.hash <= y.hash
       IN  <<first>> \o Listing(S \ {first})

\* One run of an external command: its exit status and what its output holds.
Tool(exit, out) == [exit |-> exit, out |-> out]
NoTool == Tool("none", "none")

\* rds_ssl_manager.py between runs.
NoInstall ==
  [pc |-> "idle", ran |-> <<>>, conv |-> "none", imp |-> "none",
   impTool |-> NoTool, loaded |-> "none", active |-> 0, bnd |-> "none",
   bindTool |-> NoTool, listTool |-> NoTool, certs |-> <<>>, i |-> 0,
   deletes |-> <<>>, delFailed |-> {}, clean |-> "none", raised |-> "none"]

VARIABLES
  now,        \* wall clock
  config,     \* config[name]: is a path configured for name
  files,      \* files[name]: content at config[name]
  metadata,   \* content of the file at config['metadata']
  pc,         \* position of the running script, "idle" between runs
  on_export,  \* args.on_export is given
  cert,       \* the downloaded certificate
  fetch,      \* how download_ssl_data ended
  decision,   \* what lines 150-182 decided
  ret,        \* what export_ssl_certificate returned
  failed,     \* the name whose export failed
  metaWrite,  \* how the metadata export went
  hookRuns,   \* executions of the on-export command in this run
  killed,     \* the process was killed
  pre,        \* files and metadata as the run found them
  prev,       \* the certificate of the previous run if its metadata export
              \* failed, NoCert otherwise
  pfx,        \* content of the PKCS #12 file at path_pfx
  store,      \* the entries of the certificate store
  rds,        \* the fingerprint Remote Desktop Services is set to, 0 for none
  inst        \* the running rds_ssl_manager.py: position, results, history

vars == <<now, config, files, metadata, pc, on_export, cert, fetch,
          decision, ret, failed, metaWrite, hookRuns, killed, pre, prev,
          pfx, store, rds, inst>>

\* What rds_ssl_manager.py works on; ssl_downloader.py touches none of it.
installVars == <<pfx, store, rds, inst>>

local == <<on_export, cert, fetch, decision, ret, failed, metaWrite, hookRuns,
           killed, pre, prev>>

Snapshot == [files |-> files, metadata |-> metadata]

FreshLocals ==
  /\ on_export = FALSE
  /\ cert = NoCert
  /\ fetch = "none"
  /\ decision = "none"
  /\ ret = "none"
  /\ failed = "none"
  /\ metaWrite = "none"
  /\ hookRuns = 0
  /\ killed = FALSE

\* Before rds_ssl_manager.py ever ran: no container, an empty store, no binding.
InstallFresh ==
  /\ pfx = Absent
  /\ store = {}
  /\ rds = 0
  /\ inst = NoInstall

Init ==
  /\ now = 0
  /\ config \in [NameSet -> BOOLEAN]
  /\ files = [n \in NameSet |-> Absent]
  /\ metadata \in InitialMetadata
  /\ pc = "idle"
  /\ FreshLocals
  /\ pre = Snapshot
  /\ prev = NoCert
  /\ InstallFresh

\* The wall clock advances between runs.
Tick ==
  /\ pc = "idle"
  /\ inst.pc = "idle"
  /\ now < MaxTime
  /\ now' = now + 1
  /\ UNCHANGED <<config, files, metadata, pc, local>>
  /\ UNCHANGED installVars

\* __main__, lines 211-228: the arguments are parsed and the configuration loads.
Start ==
  /\ pc = "idle"
  /\ \E cmd \in BOOLEAN : on_export' = cmd
  /\ pre' = Snapshot
  /\ pc' = "download"
  /\ UNCHANGED <<now, config, files, metadata, cert, fetch, decision, ret,
                 failed, metaWrite, hookRuns, killed, prev>>
  /\ UNCHANGED installVars

\* Download with the status test of line 116 left out: the body of a non-200
\* response is taken as the certificate.
DownloadIgnoresStatus ==
  /\ pc = "download"
  /\ \/ /\ \E c \in Certs : cert' = c
        /\ \E how \in {"ok", "status"} : fetch' = how
        /\ pc' = "compare"
     \/ /\ \E why \in {"not_json", "no_crt"} : fetch' = why
        /\ cert' = NoCert
        /\ pc' = "done"
  /\ UNCHANGED <<now, config, files, metadata, on_export, decision, ret,
                 failed, metaWrite, hookRuns, killed, pre, prev>>
  /\ UNCHANGED installVars

\* download_ssl_data and the test at line 230.
Download ==
  /\ pc = "download"
  /\ \/ /\ \E c \in Certs : cert' = c
        /\ fetch' = "ok"
        /\ pc' = "compare"
     \/ /\ \E why \in {"status", "not_json", "no_crt"} : fetch' = why
        /\ cert' = NoCert
        /\ pc' = "done"
  /\ UNCHANGED <<now, config, files, metadata, on_export, decision, ret,
                 failed, metaWrite, hookRuns, killed, pre, prev>>
  /\ UNCHANGED installVars

\* Comparator with the expiry test moved in front of the fingerprint test.
ComparatorExpiryFirst(c, file, t) ==
  IF c.valid_from > t THEN "not_yet_valid"
  ELSE IF file.kind = "absent" THEN "replace"
  ELSE IF file.kind = "garbage" THEN "replace"
  ELSE IF ~CanSubscript(file.val, "valid_to") THEN "raise"
  ELSE IF c.valid_to <= file.val.o.valid_to
    THEN (IF c.valid_to = file.val.o.valid_to
               /\ CanSubscript(file.val, "fingerprint")
               /\ file.val.o.fingerprint = c.fingerprint
            THEN "keep" ELSE "expires_before")
  ELSE IF ~CanSubscript(file.val, "fingerprint") THEN "raise"
  ELSE IF file.val.o.fingerprint = c.fingerprint THEN "keep"
  ELSE "replace"

\* Comparator with the validity test made only once a record was loaded.
ComparatorValidityLast(c, file, t) ==
  IF file.kind = "absent" THEN "replace"
  ELSE IF file.kind = "garbage" THEN "replace"
  ELSE IF c.valid_from > t THEN "not_yet_valid"
  ELSE IF ~CanSubscript(file.val, "fingerprint") THEN "raise"
  ELSE IF file.val.o.fingerprint = c.fingerprint THEN "keep"
  ELSE IF ~CanSubscript(file.val, "valid_to") THEN "raise"
  ELSE IF c.valid_to <= file.val.o.valid_to THEN "expires_before"
  ELSE "replace"

\* Comparator with < for <= in the expiry test.
ComparatorStrict(c, file, t) ==
  IF c.valid_from > t THEN "not_yet_valid"
  ELSE IF file.kind = "absent" THEN "replace"
  ELSE IF file.kind = "garbage" THEN "replace"
  ELSE IF ~CanSubscript(file.val, "fingerprint") THEN "raise"
  ELSE IF file.val.o.fingerprint = c.fingerprint THEN "keep"
  ELSE IF ~CanSubscript(file.val, "valid_to") THEN "raise"
  ELSE IF c.valid_to < file.val.o.valid_to THEN "expires_before"
  ELSE "replace"

\* Comparator without the except clause for a file that is not JSON.
ComparatorGarbageRaises(c, file, t) ==
  IF c.valid_from > t THEN "not_yet_valid"
  ELSE IF file.kind = "absent" THEN "replace"
  ELSE IF file.kind = "garbage" THEN "raise"
  ELSE IF ~CanSubscript(file.val, "fingerprint") THEN "raise"
  ELSE IF file.val.o.fingerprint = c.fingerprint THEN "keep"
  ELSE IF ~CanSubscript(file.val, "valid_to") THEN "raise"
  ELSE IF c.valid_to <= file.val.o.valid_to THEN "expires_before"
  ELSE "replace"

\* Comparator with >= for > in the validity test: a certificate that becomes
\* valid at this very moment is not yet valid.
ComparatorNowNotValid(c, file, t) ==
  IF c.valid_from >= t THEN "not_yet_valid"
  ELSE IF file.kind = "absent" THEN "replace"
  ELSE IF file.kind = "garbage" THEN "replace"
  ELSE IF ~CanSubscript(file.val, "fingerprint") THEN "raise"
  ELSE IF file.val.o.fingerprint = c.fingerprint THEN "keep"
  ELSE IF ~CanSubscript(file.val, "valid_to") THEN "raise"
  ELSE IF c.valid_to <= file.val.o.valid_to THEN "expires_before"
  ELSE "replace"

\* export_ssl_certificate, lines 150-182: the validity check, the load of the
\* metadata file and the comparison. "raise" is an exception that leaves the
\* function: the else branch of the try statement is not covered by its
\* except clauses.
Comparator(c, file, t) ==
  IF c.valid_from > t THEN "not_yet_valid"
  ELSE IF file.kind = "absent" THEN "replace"
  ELSE IF file.kind = "garbage" THEN "replace"
  ELSE IF ~CanSubscript(file.val, "fingerprint") THEN "raise"
  ELSE IF file.val.o.fingerprint = c.fingerprint THEN "keep"
  ELSE IF ~CanSubscript(file.val, "valid_to") THEN "raise"
  ELSE IF c.valid_to <= file.val.o.valid_to THEN "expires_before"
  ELSE "replace"

\* Lines 150-185 as a step of the run: on replace the export loop starts, on
\* keep or reject the function returns None, on an exception the script dies.
Compare ==
  /\ pc = "compare"
  /\ decision' = Comparator(cert, metadata, now)
  /\ \/ /\ decision' = "replace"
        /\ pc' = "crt"
        /\ ret' = ret
     \/ /\ decision' \in {"keep", "not_yet_valid", "expires_before"}
        /\ pc' = "on_export"
        /\ ret' = "None"
     \/ /\ decision' = "raise"
        /\ pc' = "done"
        /\ ret' = "raised"
  /\ UNCHANGED <<now, config, files, metadata, on_export, cert, fetch, failed,
                 metaWrite, hookRuns, killed, pre, prev>>
  /\ UNCHANGED installVars

\* NextName for a loop over ['crt', 'key'] only.
NextNameSkipsCab(n) ==
  IF n = "crt" THEN "key" ELSE "metadata"

\* The name after n in the loop of line 189, "metadata" after the last.
NextName(n) ==
  IF n = "crt" THEN "key" ELSE IF n = "key" THEN "cab" ELSE "metadata"

\* What one pass of the loop body, lines 190-199, can do to the file of name
\* n: skip it when no path is configured, write it, fail to open it, or fail
\* after open(..., 'w') truncated it.
WriteOutcomes(n) ==
  IF config[n] THEN {"written", "open_failed", "write_failed"} ELSE {"skipped"}

\* ExportFile without the return of line 199: a failed export is logged and
\* the loop goes on.
ExportFileContinues ==
  /\ pc \in NameSet
  /\ \E how \in WriteOutcomes(pc) :
       /\ files' = [files EXCEPT ![pc] =
                      IF how = "written" THEN cert[pc]
                      ELSE IF how = "write_failed" THEN Truncated
                      ELSE @]
       /\ failed' = IF how \in {"open_failed", "write_failed"} THEN pc ELSE failed
       /\ ret' = ret
       /\ pc' = NextName(pc)
  /\ UNCHANGED <<now, config, metadata, on_export, cert, fetch, decision,
                 metaWrite, hookRuns, killed, pre, prev>>
  /\ UNCHANGED installVars

\* One pass of the export loop, lines 189-199.
ExportFile ==
  /\ pc \in NameSet
  /\ \E how \in WriteOutcomes(pc) :
       /\ files' = [files EXCEPT ![pc] =
                      IF how = "written" THEN cert[pc]
                      ELSE IF how = "write_failed" THEN Truncated
                      ELSE @]
       /\ IF how \in {"open_failed", "write_failed"}
            THEN /\ failed' = pc
                 /\ ret' = "False"
                 /\ pc' = "on_export"
            ELSE /\ failed' = failed
                 /\ ret' = ret
                 /\ pc' = NextName(pc)
  /\ UNCHANGED <<now, config, metadata, on_export, cert, fetch, decision,
                 metaWrite, hookRuns, killed, pre, prev>>
  /\ UNCHANGED installVars

\* ExportMetadata with a return False in its except clause.
ExportMetadataFatal ==
  /\ pc = "metadata"
  /\ \E how \in {"written", "open_failed", "write_failed"} :
       /\ metaWrite' = how
       /\ metadata' = IF how = "written" THEN Json(Object(MetadataOf(cert)))
                      ELSE IF how = "write_failed" THEN Garbage
                      ELSE metadata
       /\ ret' = IF how = "written" THEN "True" ELSE "False"
  /\ pc' = "on_export"
  /\ UNCHANGED <<now, config, files, on_export, cert, fetch, decision, failed,
                 hookRuns, killed, pre, prev>>
  /\ UNCHANGED installVars

\* Lines 201-209: the metadata export; its failure is printed and the
\* function returns True all the same.
ExportMetadata ==
  /\ pc = "metadata"
  /\ \E how \in {"written", "open_failed", "write_failed"} :
       /\ metaWrite' = how
       /\ metadata' = IF how = "written" THEN Json(Object(MetadataOf(cert)))
                      ELSE IF how = "write_failed" THEN Garbage
                      ELSE metadata
  /\ ret' = "True"
  /\ pc' = "on_export"
  /\ UNCHANGED <<now, config, files, on_export, cert, fetch, decision, failed,
                 hookRuns, killed, pre, prev>>
  /\ UNCHANGED installVars

\* RunsCommand with "is not False" for the truth test.
RunsCommandNotFalse(r, cmd) == r # "False" /\ cmd

\* The test of line 232: is the shell command run.
RunsCommand(r, cmd) == r = "True" /\ cmd

\* __main__, lines 232-238.
OnExport ==
  /\ pc = "on_export"
  /\ hookRuns' = IF RunsCommand(ret, on_export) THEN hookRuns + 1 ELSE hookRuns
  /\ pc' = "done"
  /\ UNCHANGED <<now, config, files, metadata, on_export, cert, fetch,
                 decision, ret, failed, metaWrite, killed, pre, prev>>
  /\ UNCHANGED installVars

\* The process is killed from outside; a write in progress is cut short.
Kill ==
  /\ pc \in {"download", "compare", "crt", "key", "cab", "metadata", "on_export"}
  /\ killed' = TRUE
  /\ pc' = "done"
  /\ \/ UNCHANGED <<files, metadata>>
     \/ /\ pc \in NameSet
        /\ config[pc]
        /\ files' = [files EXCEPT ![pc] = Truncated]
        /\ metadata' = metadata
     \/ /\ pc = "metadata"
        /\ metadata' = Garbage
        /\ files' = files
  /\ UNCHANGED <<now, config, on_export, cert, fetch, decision, ret, failed,
                 metaWrite, hookRuns, pre, prev>>
  /\ UNCHANGED installVars

\* The process is gone; the file system stays.
Exit ==
  /\ pc = "done"
  /\ pc' = "idle"
  /\ on_export' = FALSE
  /\ cert' = NoCert
  /\ fetch' = "none"
  /\ decision' = "none"
  /\ ret' = "none"
  /\ failed' = "none"
  /\ metaWrite' = "none"
  /\ hookRuns' = 0
  /\ killed' = FALSE
  /\ pre' = Snapshot
  /\ prev' = IF metaWrite \in {"open_failed", "write_failed"} THEN cert ELSE NoCert
  /\ UNCHANGED <<now, config, files, metadata>>
  /\ UNCHANGED installVars

Next ==
  \/ Tick
  \/ Start
  \/ Download
  \/ Compare
  \/ ExportFile
  \/ ExportMetadata
  \/ OnExport
  \/ Exit

\* Runs that an external scheduler starts one after the other and lets finish.
Spec == Init /\ [][Next]_vars

NextKill ==
  \/ Next
  \/ Kill

\* The same runs, any of which may be killed.
SpecKill == Init /\ [][NextKill]_vars

\* The run downloaded a certificate that was valid already and no write of
\* the run failed.
CleanRun ==
  /\ cert # NoCert
  /\ cert.valid_from <= now
  /\ failed = "none"
  /\ metaWrite \notin {"open_failed", "write_failed"}

\* Exit, carrying over the certificate of a clean run.
ExitClean ==
  /\ pc = "done"
  /\ pc' = "idle"
  /\ on_export' = FALSE
  /\ cert' = NoCert
  /\ fetch' = "none"
  /\ decision' = "none"
  /\ ret' = "none"
  /\ failed' = "none"
  /\ metaWrite' = "none"
  /\ hookRuns' = 0
  /\ killed' = FALSE
  /\ pre' = Snapshot
  /\ prev' = IF CleanRun THEN cert ELSE NoCert
  /\ UNCHANGED <<now, config, files, metadata>>
  /\ UNCHANGED installVars

NextTwice ==
  \/ Tick
  \/ Start
  \/ Download
  \/ Compare
  \/ ExportFile
  \/ ExportMetadata
  \/ OnExport
  \/ ExitClean

\* Init with a path configured for every name; lines 150-182 and 201-209,
\* which read and write the metadata file, do not look at these paths.
InitTwice ==
  /\ Init
  /\ \A n \in NameSet : config[n]

\* The same runs as in Spec; what a run knows of the one before it is the
\* certificate that one downloaded, if it was a clean run.
SpecTwice == InitTwice /\ [][NextTwice]_vars

\* What is known of a run that was killed after its download: the certificate
\* and whether lines 150-182 decided, or were about to decide, to replace.
Interrupted(c, replace) == [cert |-> c, replace |-> replace]

\* Exit, carrying over what is known of a killed run.
ExitKilled ==
  /\ pc = "done"
  /\ pc' = "idle"
  /\ on_export' = FALSE
  /\ cert' = NoCert
  /\ fetch' = "none"
  /\ decision' = "none"
  /\ ret' = "none"
  /\ failed' = "none"
  /\ metaWrite' = "none"
  /\ hookRuns' = 0
  /\ killed' = FALSE
  /\ pre' = Snapshot
  /\ prev' = IF killed /\ cert # NoCert
              THEN Interrupted(cert, Comparator(cert, pre.metadata, now) = "replace")
              ELSE NoCert
  /\ UNCHANGED <<now, config, files, metadata>>
  /\ UNCHANGED installVars

\* download_ssl_data in the run after a killed one: the server sends what it
\* sent to the killed run.
DownloadAgain ==
  /\ pc = "download"
  /\ prev # NoCert
  /\ cert' = prev.cert
  /\ fetch' = "ok"
  /\ pc' = "compare"
  /\ UNCHANGED <<now, config, files, metadata, on_export, decision, ret,
                 failed, metaWrite, hookRuns, killed, pre, prev>>
  /\ UNCHANGED installVars

\* download_ssl_data in any other run.
DownloadFirst ==
  /\ prev = NoCert
  /\ Download

NextInterrupted ==
  \/ Tick
  \/ Start
  \/ DownloadFirst
  \/ DownloadAgain
  \/ Compare
  \/ ExportFile
  \/ ExportMetadata
  \/ OnExport
  \/ Kill
  \/ ExitKilled

\* Runs any of which may be killed, with a path configured for every name;
\* what a run knows of the one before it is what that one was doing when it
\* was killed.
SpecInterrupted == InitTwice /\ [][NextInterrupted]_vars

\* ---------------------------------------- rds_ssl_manager.py: the run
\* ssl_downloader.py does nothing while rds_ssl_manager.py runs.
downloaderVars ==
  <<now, config, files, metadata, pc, on_export, cert, fetch, decision, ret,
    failed, metaWrite, hookRuns, killed, pre, prev>>

\* __main__, lines 242-281: the privilege test and the os.path.isfile tests
\* of the certificate, key and metadata paths; SystemExit when one fails.
InstallStart ==
  /\ pc = "idle"
  /\ inst.pc = "idle"
  /\ \E admin \in BOOLEAN :
       inst' = [inst EXCEPT !.pc =
                  IF /\ admin
                     /\ files["crt"] # Absent
                     /\ files["key"] # Absent
                     /\ metadata # Absent
                    THEN "convert" ELSE "done"]
  /\ UNCHANGED <<pfx, store, rds>>
  /\ UNCHANGED downloaderVars

\* What openssl can do: exit nonzero, exit zero having written the container
\* (only from a certificate and its key), or exit zero without a container.
ConvertOutcomes ==
  {Tool("nonzero", "nothing"), Tool("zero", "nothing")}
    \cup (IF Convertible(files["crt"], files["key"])
            THEN {Tool("zero", "written")} ELSE {})

\* convert_certificate, lines 80-92: True when the command exits zero and a
\* file is at path_pfx afterwards.
ConvertResult(tool, file) ==
  IF tool.exit = "nonzero" THEN "None"
  ELSE IF file = Absent THEN "None"
  ELSE "True"

\* Convert with the certificate path for -out: the container is written over
\* the PEM certificate.
ConvertInPlace ==
  /\ inst.pc = "convert"
  /\ \E tool \in ConvertOutcomes :
       /\ files' = IF tool.out = "written"
                     THEN [files EXCEPT !["crt"] = Pkcs12(files["crt"], files["key"])]
                     ELSE files
       /\ inst' = [inst EXCEPT
                     !.ran = Append(@, "convert"),
                     !.conv = ConvertResult(tool, files'["crt"]),
                     !.pc = IF ConvertResult(tool, files'["crt"]) = "True"
                              THEN "import" ELSE "done"]
  /\ UNCHANGED <<pfx, store, rds>>
  /\ UNCHANGED <<now, config, metadata, pc, on_export, cert, fetch, decision,
                 ret, failed, metaWrite, hookRuns, killed, pre, prev>>

\* convert_certificate and the test of line 284.
Convert ==
  /\ inst.pc = "convert"
  /\ \E tool \in ConvertOutcomes :
       /\ pfx' = IF tool.out = "written"
                   THEN Pkcs12(files["crt"], files["key"]) ELSE pfx
       /\ inst' = [inst EXCEPT
                     !.ran = Append(@, "convert"),
                     !.conv = ConvertResult(tool, pfx'),
                     !.pc = IF ConvertResult(tool, pfx') = "True"
                              THEN "import" ELSE "done"]
  /\ UNCHANGED <<store, rds>>
  /\ UNCHANGED downloaderVars

\* What certutil -importpfx can do with the container: add its certificate to
\* the store, find it there already, print something else, or exit nonzero.
ImportOutcomes ==
  {Tool("nonzero", "other"), Tool("zero", "other")}
    \cup (IF pfx.crt.of \in Hashes(store)
            THEN {Tool("zero", "already")} ELSE {Tool("zero", "added")})

\* ImportResult without the elif of line 113.
ImportResultAddedOnly(tool) ==
  IF tool.exit = "nonzero" THEN "None"
  ELSE IF tool.out = "added" THEN "True"
  ELSE "None"

\* import_certificate, lines 107-121: the classification of the output.
ImportResult(tool) ==
  IF tool.exit = "nonzero" THEN "None"
  ELSE IF tool.out = "added" THEN "True"
  ELSE IF tool.out = "already" THEN "True"
  ELSE "None"

\* import_certificate and the first operand of line 286.
Import ==
  /\ inst.pc = "import"
  /\ \E tool \in ImportOutcomes :
       /\ \/ /\ tool.out = "added"
             /\ \E t \in Times :
                  store' = store \cup {Entry(pfx.crt.of, TRUE, t)}
          \/ /\ tool.out # "added"
             /\ store' = store
       /\ inst' = [inst EXCEPT
                     !.ran = Append(@, "import"),
                     !.impTool = tool,
                     !.imp = ImportResult(tool),
                     !.pc = IF ImportResult(tool) = "True"
                              THEN "load" ELSE "done"]
  /\ UNCHANGED <<pfx, rds>>
  /\ UNCHANGED downloaderVars

\* bool() of a loaded JSON value: an empty object is false.
Truthy(v) == v.t = "object" => DOMAIN v.o # {}

\* load_metadata, lines 134-140, the second operand of line 286 and the
\* subscript of line 288: "None" stops the run, "raise" ends it with an
\* exception, otherwise the fingerprint goes to set_rds_certificate.
LoadResult(file) ==
  IF file.kind # "json" THEN "None"
  ELSE IF ~Truthy(file.val) THEN "None"
  ELSE IF ~CanSubscript(file.val, "fingerprint") THEN "raise"
  ELSE "loaded"

LoadMetadata ==
  /\ inst.pc = "load"
  /\ inst' = [inst EXCEPT
                !.ran = Append(@, "load"),
                !.loaded = LoadResult(metadata),
                !.active = IF LoadResult(metadata) = "loaded"
                             THEN metadata.val.o.fingerprint ELSE @,
                !.raised = IF LoadResult(metadata) = "raise" THEN "load" ELSE @,
                !.pc = IF LoadResult(metadata) = "loaded" THEN "bind" ELSE "done"]
  /\ UNCHANGED <<pfx, store, rds>>
  /\ UNCHANGED downloaderVars

\* BindResult without the test of line 158.
BindResultAnyOutput(tool) ==
  IF tool.exit = "nonzero" THEN "None" ELSE "True"

\* set_rds_certificate, lines 154-166.
BindResult(tool) ==
  IF tool.exit = "nonzero" THEN "None"
  ELSE IF tool.out # "successful" THEN "None"
  ELSE "True"

\* set_rds_certificate and the test of line 288.
Bind ==
  /\ inst.pc = "bind"
  /\ \E tool \in {Tool("nonzero", "other"), Tool("zero", "other"),
                  Tool("zero", "successful")} :
       /\ rds' = IF tool.out = "successful" THEN inst.active ELSE rds
       /\ inst' = [inst EXCEPT
                     !.ran = Append(@, "bind"),
                     !.bindTool = tool,
                     !.bnd = BindResult(tool),
                     !.pc = IF BindResult(tool) = "True" THEN "list" ELSE "done"]
  /\ UNCHANGED <<pfx, store>>
  /\ UNCHANGED downloaderVars

\* clean_store, lines 203-221: the listing. A failed command is printed and
\* then print_block is called with indent=1, a keyword it does not have: the
\* TypeError leaves clean_store. "unparsed" is a completed listing in which
\* the pattern of line 219 finds no block.
ListResult(tool) ==
  IF tool.exit = "nonzero" THEN "raise"
  ELSE IF tool.out \notin {"completed", "unparsed"} THEN "raise"
  ELSE IF tool.out = "unparsed" THEN "none_found"
  ELSE IF store = {} THEN "none_found"
  ELSE "listed"

ListStore ==
  /\ inst.pc = "list"
  /\ \E tool \in {Tool("nonzero", "other"), Tool("zero", "other"),
                  Tool("zero", "unparsed"), Tool("zero", "completed")} :
       inst' = [inst EXCEPT
                  !.ran = Append(@, "clean"),
                  !.listTool = tool,
                  !.certs = IF ListResult(tool) = "listed"
                              THEN Listing(store) ELSE <<>>,
                  !.i = 1,
                  !.clean = IF ListResult(tool) = "none_found"
                              THEN "returned" ELSE @,
                  !.raised = IF ListResult(tool) = "raise" THEN "list" ELSE @,
                  !.pc = IF ListResult(tool) = "listed" THEN "scan" ELSE "done"]
  /\ UNCHANGED <<pfx, store, rds>>
  /\ UNCHANGED downloaderVars

\* Skipped with and for or.
SkippedBoth(block, fingerprint) ==
  block.hash = fingerprint /\ ~block.expires

\* Line 226: the block is the active certificate's or shows no NotAfter.
Skipped(block, fingerprint) ==
  block.hash = fingerprint \/ ~block.expires

\* Expired with <= for <.
ExpiredOrNow(block, t) == block.notAfter <= t

\* Line 233.
Expired(block, t) == block.notAfter < t

\* delete_certificate, lines 181-192: a nonzero exit is printed and then
\* print_block is called with indent=2, a missing success marker likewise; the
\* TypeError of that call leaves delete_certificate and clean_store.
DeleteRaises(tool) ==
  tool.exit = "nonzero" \/ tool.out # "completed"

\* One pass of the loop of lines 224-240, delete_certificate included.
Scan ==
  /\ inst.pc = "scan"
  /\ LET block == inst.certs[inst.i]
         last == inst.i = Len(inst.certs)
         on == [inst EXCEPT
                  !.i = @ + 1,
                  !.clean = IF last THEN "returned" ELSE @,
                  !.pc = IF last THEN "done" ELSE @]
     IN  IF Skipped(block, inst.active) \/ ~Expired(block, now)
           THEN /\ inst' = on
                /\ store' = store
           ELSE \E tool \in {Tool("nonzero", "other"), Tool("zero", "other"),
                             Tool("zero", "completed")} :
                  IF DeleteRaises(tool)
                    THEN /\ inst' = [inst EXCEPT
                                       !.deletes = Append(@, block),
                                       !.delFailed = @ \cup {block.hash},
                                       !.raised = "delete",
                                       !.pc = "done"]
                         /\ store' = store
                    ELSE /\ inst' = [on EXCEPT !.deletes = Append(@, block)]
                         /\ store' = {e \in store : e.hash # block.hash}
  /\ UNCHANGED <<pfx, rds>>
  /\ UNCHANGED downloaderVars

\* The script has ended; the container, the store and the binding stay.
InstallExit ==
  /\ inst.pc = "done"
  /\ inst' = NoInstall
  /\ UNCHANGED <<pfx, store, rds>>
  /\ UNCHANGED downloaderVars

\* The files the paths on its command line can hold when it starts: any
\* certificate or none, and the key of certificate 1 or none.
InstallFiles ==
  {[crt |-> c, key |-> k, cab |-> Absent] :
     c \in {Absent} \cup {Pem("crt", fp) : fp \in Fingerprints},
     k \in {Absent, Pem("key", 1)}}

\* The metadata files it can find: none, text that is not JSON, an array, an
\* empty object, an object without fingerprint, a record.
InstallMetadata ==
  {Absent, Garbage, Json(Array), Json(Object([a \in {} |-> 0])),
   Json(Object([domain |-> Domain]))}
    \cup {Json(Object(MetadataOf(Cert(fp, 0, 0)))) : fp \in Fingerprints}

\* The stores it can find: of each hash no entry (-2), an entry without
\* NotAfter (-1), or an entry with one.
InstallStores ==
  {{Entry(h, f[h] >= 0, IF f[h] >= 0 THEN f[h] ELSE 0) :
      h \in {x \in StoreHashes : f[x] # -2}} :
     f \in [StoreHashes -> {-2, -1} \cup Times]}

\* rds_ssl_manager.py run by hand on files, a store and a clock as they are.
InitInstall ==
  /\ now \in Times
  /\ config = [n \in NameSet |-> TRUE]
  /\ files \in InstallFiles
  /\ metadata \in InstallMetadata
  /\ pc = "idle"
  /\ FreshLocals
  /\ pre = Snapshot
  /\ prev = NoCert
  /\ pfx = Absent
  /\ store \in InstallStores
  /\ rds = 0
  /\ inst = NoInstall

NextInstall ==
  \/ InstallStart
  \/ Convert
  \/ Import
  \/ LoadMetadata
  \/ Bind
  \/ ListStore
  \/ Scan
  \/ InstallExit

SpecInstall == InitInstall /\ [][NextInstall]_vars

\* ------------------------------------------------- both scripts
\* The stores rds_ssl_manager.py is started on here: an empty one, or one with
\* a certificate of every hash that expired at time 0.
BothStores == {{}, {Entry(h, TRUE, 0) : h \in StoreHashes}}

\* Before either script ran, with a path configured for every name.
InitBoth ==
  /\ now = 0
  /\ config = [n \in NameSet |-> TRUE]
  /\ files = [n \in NameSet |-> Absent]
  /\ metadata \in InitialMetadata
  /\ pc = "idle"
  /\ FreshLocals
  /\ pre = Snapshot
  /\ prev = NoCert
  /\ pfx = Absent
  /\ store \in BothStores
  /\ rds = 0
  /\ inst = NoInstall

\* A step of ssl_downloader.py, taken while rds_ssl_manager.py is not running.
DownloaderStep ==
  /\ inst.pc = "idle"
  /\ Next

NextBoth ==
  \/ DownloaderStep
  \/ InstallStart
  \/ Convert
  \/ Import
  \/ LoadMetadata
  \/ Bind
  \/ ListStore
  \/ Scan

\* Any number of runs of ssl_downloader.py and then one run of
\* rds_ssl_manager.py on the files they left: ssl_downloader.py reads nothing
\* that rds_ssl_manager.py writes, so this run is started in every state the
\* files can be in.
SpecBoth == InitBoth /\ [][NextBoth]_vars

\* ------------------------------------------------------------- claims
\* The comparison of lines 150-182 has been made in this run.
Decided == decision # "none"
\* The function has returned to __main__ or the script has ended.
Returned == pc \in {"on_export", "done"}
\* The run has written no file and run no command so far.
NoEffect == files = pre.files /\ metadata = pre.metadata /\ hookRuns = 0
\* The run found a complete record R with the fingerprint of the download.
SameFingerprint ==
  /\ IsRecord(pre.metadata)
  /\ pre.metadata.val.o.fingerprint = cert.fingerprint
\* The run found a complete record R with another fingerprint than F's.
OtherRecord ==
  /\ IsRecord(pre.metadata)
  /\ pre.metadata.val.o.fingerprint # cert.fingerprint
\* The metadata file now holds exactly the four fields of the download.
HoldsCert ==
  /\ metadata.kind = "json"
  /\ metadata.val.t = "object"
  /\ metadata.val.o = [domain |-> cert.domain, valid_from |-> cert.valid_from,
                       valid_to |-> cert.valid_to,
                       fingerprint |-> cert.fingerprint]

\* C1 as stated: whenever the fetched fingerprint equals the persisted one the
\* decision is keep, whatever F.valid_from is.
C1_SameFingerprintKeeps ==
  (Decided /\ SameFingerprint) => decision = "keep"

\* C1 amended: with equal fingerprints nothing is written, the metadata stays
\* and no command runs; the decision is keep when F.valid_from <= now and the
\* not-yet-valid rejection when F.valid_from > now, whatever the valid_to values.
C1_SameFingerprintNoOp ==
  (Decided /\ SameFingerprint) =>
    /\ decision = IF cert.valid_from > now THEN "not_yet_valid" ELSE "keep"
    /\ ret = "None"
    /\ Returned
    /\ NoEffect

C1_Witness ==
  /\ pc = "done"
  /\ on_export
  /\ decision = "keep"
  /\ IsRecord(pre.metadata)
  /\ pre.metadata.val.o.valid_to # cert.valid_to

\* C2: a download with valid_from > now is rejected whatever the metadata file
\* holds: the run never enters the export, writes nothing and runs no command.
C2_NotYetValidRejected ==
  (fetch = "ok" /\ cert.valid_from > now) =>
    /\ pc \in {"compare", "on_export", "done"}
    /\ NoEffect
    /\ Decided => (decision = "not_yet_valid" /\ ret = "None")

C2_Witness ==
  /\ pc = "done"
  /\ on_export
  /\ decision = "not_yet_valid"
  /\ pre.metadata = Absent

\* C3: a valid download with another fingerprint than the record's and a
\* valid_to not after the record's is rejected; files, record and command
\* are untouched.
C3_ExpiryRegressionRejected ==
  (Decided /\ cert.valid_from <= now /\ OtherRecord
     /\ cert.valid_to <= pre.metadata.val.o.valid_to) =>
    /\ decision = "expires_before"
    /\ ret = "None"
    /\ Returned
    /\ NoEffect

C3_Witness ==
  /\ pc = "done"
  /\ on_export
  /\ decision = "expires_before"
  /\ OtherRecord
  /\ cert.valid_to = pre.metadata.val.o.valid_to

\* C4: a valid download with another fingerprint and a later valid_to than the
\* record's is a replace; when no write failed the metadata file holds F's four
\* fields, every configured path holds F's content and the others are as before.
C4_ReplaceExports ==
  (pc = "done" /\ fetch = "ok" /\ cert.valid_from <= now /\ OtherRecord
     /\ cert.valid_to > pre.metadata.val.o.valid_to) =>
    /\ decision = "replace"
    /\ (failed = "none" /\ metaWrite = "written") =>
         /\ ret = "True"
         /\ HoldsCert
         /\ \A n \in NameSet :
              files[n] = IF config[n] THEN cert[n] ELSE pre.files[n]

C4_Witness ==
  /\ pc = "done"
  /\ OtherRecord
  /\ decision = "replace"
  /\ metaWrite = "written"
  /\ \A n \in NameSet : config[n] /\ files[n] = cert[n]

\* C5: with the metadata file missing or not JSON, a valid download is a
\* replace and no exception ends the run; when no write fails the files and a
\* new record for F are on disk.
C5_MissingOrCorruptReplaces ==
  (Decided /\ cert.valid_from <= now
     /\ pre.metadata.kind \in {"absent", "garbage"}) =>
    /\ decision = "replace"
    /\ ret # "raised"
    /\ (pc = "done" /\ failed = "none" /\ metaWrite = "written") =>
         /\ HoldsCert
         /\ \A n \in NameSet : config[n] => files[n] = cert[n]

C5_Witness ==
  /\ pc = "done"
  /\ pre.metadata = Garbage
  /\ decision = "replace"
  /\ HoldsCert
  /\ config["crt"] /\ files["crt"] = cert["crt"]

\* The metadata file decodes as JSON without being the expected structure for
\* the comparison with the download.
Malformed ==
  /\ pre.metadata.kind = "json"
  /\ \/ pre.metadata.val.t # "object"
     \/ ~CanSubscript(pre.metadata.val, "fingerprint")
     \/ /\ pre.metadata.val.o.fingerprint # cert.fingerprint
        /\ ~CanSubscript(pre.metadata.val, "valid_to")

\* C6: with a metadata file that is JSON of another structure, a valid
\* download is a replace and the run is not ended by an exception.
C6_MalformedReplaces ==
  (Decided /\ cert.valid_from <= now /\ Malformed) =>
    (decision = "replace" /\ ret # "raised")

\* C7: once the export of a file failed, the function returns False, the
\* metadata file is not written in the run and the command is not run.
C7_FileFailureAborts ==
  failed # "none" =>
    /\ decision = "replace"
    /\ ret = "False"
    /\ Returned
    /\ metaWrite = "none"
    /\ metadata = pre.metadata
    /\ hookRuns = 0

C7_Witness ==
  /\ pc = "done"
  /\ on_export
  /\ failed = "key"
  /\ config["crt"] /\ files["crt"] = cert["crt"]
  /\ IsRecord(metadata)

\* C8: between runs, a persisted record carries the fingerprint of the
\* certificate whose content is at every configured path.
C8_RecordMatchesFiles ==
  (pc = "idle" /\ IsRecord(metadata)) =>
    \A n \in NameSet :
      config[n] => files[n] = Pem(n, metadata.val.o.fingerprint)

\* C9: at the end of a run the configured command has run once if the decision
\* was replace and the function returned True, and not at all after keep,
\* reject, a failed fetch or a failed file export (nor when none is configured).
C9_HookExactlyOnce ==
  /\ hookRuns <= 1
  /\ pc = "done" =>
       /\ (on_export /\ decision = "replace" /\ ret = "True") => hookRuns = 1
       /\ (\/ decision \in {"keep", "not_yet_valid", "expires_before"}
           \/ fetch \in {"status", "not_json", "no_crt"}
           \/ failed # "none"
           \/ ~on_export) => hookRuns = 0

C9_Witness ==
  /\ pc = "done"
  /\ hookRuns = 1
  /\ decision = "replace"
  /\ metaWrite = "written"

\* C10: a failed metadata export after the file exports is not a failure of
\* the function (it returns True and the configured command runs); the next
\* run that downloads the same F decides replace again, and when its metadata
\* export succeeds the metadata file holds F's fields.
C10_MetadataFailureNotFatal ==
  /\ metaWrite \in {"open_failed", "write_failed"} =>
       /\ failed = "none"
       /\ ret = "True"
       /\ Returned
       /\ (pc = "done" /\ on_export) => hookRuns = 1
  /\ (prev # NoCert /\ cert = prev /\ Decided) => decision = "replace"
  /\ (prev # NoCert /\ cert = prev /\ metaWrite = "written") => HoldsCert

C10_Witness ==
  /\ pc = "done"
  /\ prev # NoCert
  /\ cert = prev
  /\ metaWrite = "written"
  /\ HoldsCert
  /\ hookRuns = 1

\* ------------------------------------------ claims on rds_ssl_manager.py
\* The blocks of the listing and those delete_certificate was called for.
Listed == {inst.certs[k] : k \in 1..Len(inst.certs)}
Deleted == {inst.deletes[k] : k \in 1..Len(inst.deletes)}
\* The stages the run has entered.
Ran == {inst.ran[k] : k \in 1..Len(inst.ran)}
\* A block that is not the active certificate's and shows a NotAfter before now.
Candidate(block) ==
  block.hash # inst.active /\ block.expires /\ block.notAfter < now

\* C13: no delete is issued for a block without NotAfter, nor for the block
\* of the active fingerprint, whatever its NotAfter.
C13_NeverDeletesActiveOrUndated ==
  \A block \in Deleted : block.expires /\ block.hash # inst.active

C13_Witness ==
  /\ inst.pc = "done"
  /\ inst.clean = "returned"
  /\ Deleted # {}
  /\ \E block \in Listed : ~block.expires /\ block.hash # inst.active
  /\ \E block \in Listed :
       block.hash = inst.active /\ block.expires /\ block.notAfter < now

\* C14: after a delete failed, a delete is still attempted for every other
\* expired block that is not the active one.
C14_FailedDeleteDoesNotStopOthers ==
  (inst.pc = "done" /\ inst.delFailed # {}) =>
    \A block \in Listed : Candidate(block) => block \in Deleted

\* C15: when the listing succeeds and no delete fails, the deleted blocks are
\* exactly those not active, dated, and with NotAfter strictly before now; they
\* are gone from the store and the others are still there.
C15_DeletesExactlyExpired ==
  /\ \A block \in Deleted : block.notAfter < now
  /\ (inst.pc = "done" /\ inst.clean = "returned") =>
       /\ Deleted = {block \in Listed : Candidate(block)}
       /\ inst.certs # <<>> => store = Listed \ Deleted

C15_Witness ==
  /\ inst.pc = "done"
  /\ inst.clean = "returned"
  /\ Deleted # {}
  /\ \E block \in Listed \ Deleted :
       block.hash # inst.active /\ block.expires /\ block.notAfter = now

\* C16: when the listing command fails or no block is parsed, clean_store
\* returns without an exception and without a delete.
C16_ListingFailureReturns ==
  (inst.pc = "done" /\ "clean" \in Ran /\ inst.certs = <<>>) =>
    /\ inst.raised = "none"
    /\ inst.clean = "returned"
    /\ inst.deletes = <<>>

\* s is the beginning of t.
IsPrefix(s, t) ==
  Len(s) <= Len(t) /\ \A k \in 1..Len(s) : s[k] = t[k]

\* C17: the stages run in the order convert, import, (metadata load,) bind,
\* clean, each only after the one before succeeded; clean_store and deletes
\* happen only after set_rds_certificate exited zero with the success text.
C17_StagesInOrder ==
  /\ IsPrefix(inst.ran, <<"convert", "import", "load", "bind", "clean">>)
  /\ "import" \in Ran => inst.conv = "True"
  /\ "load" \in Ran => inst.imp = "True"
  /\ "bind" \in Ran => inst.loaded = "loaded"
  /\ "clean" \in Ran =>
       (inst.bnd = "True" /\ inst.bindTool = Tool("zero", "successful"))
  /\ inst.deletes # <<>> => "clean" \in Ran
  /\ inst.bindTool = Tool("zero", "successful") => rds = inst.active

C17_Witness ==
  /\ inst.pc = "done"
  /\ inst.ran = <<"convert", "import", "load", "bind", "clean">>
  /\ inst.deletes # <<>>

\* The tool exited zero and its output says added or already present.
ImportToolOk ==
  inst.impTool.exit = "zero" /\ inst.impTool.out \in {"added", "already"}

\* C18 as stated: import_certificate succeeds exactly on a zero exit with an
\* added or already-present output, and then the run goes on to the binding.
C18_ImportSuccessContinues ==
  "import" \in Ran =>
    /\ inst.imp = "True" <=> ImportToolOk
    /\ inst.pc = "done" => ("bind" \in Ran <=> inst.imp = "True")

\* C18 amended: import_certificate succeeds exactly on a zero exit with an
\* added or already-present output; the binding runs exactly when it succeeded
\* and the metadata file is a JSON object with a fingerprint; after a failed
\* import no later stage runs.
C18_ImportSuccessAndMetadata ==
  "import" \in Ran =>
    /\ inst.imp = "True" <=> ImportToolOk
    /\ inst.imp # "True" => (inst.pc = "done" /\ inst.ran = <<"convert", "import">>)
    /\ inst.pc = "done" =>
         ("bind" \in Ran <=>
            /\ inst.imp = "True"
            /\ metadata.kind = "json"
            /\ metadata.val.t = "object"
            /\ "fingerprint" \in DOMAIN metadata.val.o)

C18_Witness ==
  /\ inst.pc = "done"
  /\ inst.impTool = Tool("zero", "already")
  /\ "bind" \in Ran

\* ------------------------------------------- claims on a failed download
\* The download ended on a non-200 status, a body that is not JSON, or a
\* response without 'crt'.
FetchFailed == fetch \in {"status", "not_json", "no_crt"}

\* C19: after a failed download the run ends before export_ssl_certificate:
\* nothing is compared or exported, the metadata file and the crt/key/cab files
\* are as the run found them, and the command is not run.
C19_FetchFailureNoEffect ==
  FetchFailed =>
    /\ pc = "done"
    /\ cert = NoCert
    /\ decision = "none"
    /\ ret = "none"
    /\ NoEffect

C19_Witness ==
  /\ pc = "done"
  /\ fetch = "status"
  /\ on_export
  /\ IsRecord(metadata)
  /\ \E n \in NameSet : files[n] # Absent
  /\ NoEffect

\* ------------------------------------------------ claims on two runs
\* This run downloaded the certificate of the clean run before it.
SameAsBefore == prev # NoCert /\ cert = prev

\* C11: a clean run that downloads the certificate F of the clean run before
\* it leaves the metadata file as that run left it.
C11_SecondRunSameRecord ==
  (pc = "done" /\ SameAsBefore /\ CleanRun) => metadata = pre.metadata

C11_Witness ==
  /\ pc = "done"
  /\ SameAsBefore
  /\ CleanRun
  /\ decision = "keep"
  /\ HoldsCert
  /\ \A n \in NameSet : config[n] /\ files[n] = cert[n]

\* ------------------------------------------- claims on a run after a kill
\* An uninterrupted clean run has ended that downloaded the certificate of the
\* killed run before it.
AfterInterrupted ==
  /\ pc = "done"
  /\ ~killed
  /\ CleanRun
  /\ prev # NoCert
  /\ cert = prev.cert

\* The record is F's and every configured file holds F's content.
Exported ==
  /\ HoldsCert
  /\ \A n \in NameSet : config[n] => files[n] = cert[n]

ExportStep ==
  /\ decision = "replace"
  /\ pc \in NameSet \cup {"metadata"}
  /\ inst.pc = "idle"
  /\ inst' = inst

\* C20: the metadata file and the crt/key/cab files change only in a step of
\* the export stage after a replace decision; no step of rds_ssl_manager.py,
\* whether it succeeds or fails, changes any of them.
C20_OnlyExportWrites ==
  [][/\ (files' # files \/ metadata' # metadata) => ExportStep
     /\ (inst' # inst) => (files' = files /\ metadata' = metadata)]_vars

C20_Witness ==
  /\ inst.pc = "done"
  /\ inst.ran = <<"convert", "import", "load", "bind", "clean">>
  /\ inst.deletes # <<>>
  /\ pfx # Absent
  /\ rds = inst.active
  /\ IsRecord(metadata)
  /\ files["crt"] = Pem("crt", metadata.val.o.fingerprint)
  /\ files["key"] = Pem("key", metadata.val.o.fingerprint)

\* ------------------------------------- claims on a sequence of records
\* The step changes the metadata file from one complete record to another.
RecordChanges ==
  /\ IsRecord(metadata)
  /\ IsRecord(metadata')
  /\ metadata' # metadata

\* C21: whenever a run changes the record from R to R', R' has another
\* fingerprint than R and a later valid_to, so the persisted valid_to never
\* decreases, and R'.valid_from is not after the clock of that run.
C21_ValidToOnlyGrows ==
  [][RecordChanges =>
       /\ metadata'.val.o.fingerprint # metadata.val.o.fingerprint
       /\ metadata'.val.o.valid_to > metadata.val.o.valid_to
       /\ metadata'.val.o.valid_from <= now]_vars

C21_Witness ==
  /\ pc = "done"
  /\ decision = "replace"
  /\ IsRecord(pre.metadata)
  /\ HoldsCert
  /\ metadata # pre.metadata
  /\ metadata.val.o.valid_to > pre.metadata.val.o.valid_to

\* -------------------------------------- claims on what the binding names
\* C22: in a run of rds_ssl_manager.py that reaches set_rds_certificate, the
\* fingerprint passed to it, and to clean_store as the one to retain, is that
\* of the certificate file the run converted and imported.
C22_BindsConvertedCertificate ==
  "bind" \in Ran => inst.active = pfx.crt.of
====
